---- MODULE Spec2Model ----
(***************************************************************************)
(* A model of nix-du's graph reductions (src/src/reduction.rs) and of the  *)
(* dependency graph and its size metadata (src/src/depgraph.rs).           *)
(*                                                                         *)
(* A graph is a petgraph Graph: a sequence of node weights and a sequence  *)
(* of edges (source, target), both in insertion order.  Node indices are   *)
(* the positions in the node sequence; they start at 1 here and at 0 in    *)
(* the source.                                                             *)
(***************************************************************************)
EXTENDS Naturals, Sequences, FiniteSets, TLC

\* Bounds of the enumerated input graphs.
MaxNodes == 3
MaxEdges == 3

VARIABLES
    di,     \* reduction.rs: the DepInfos an operation returned (or its input)
    orig,   \* reduction.rs: the DepInfos the operation was called with
    op,     \* which operation produced di
    pred,   \* keep: the set of paths on which the filter returns true
    trace,  \* local variables of the operation when it returned
    mdi,    \* depgraph.rs: a DepInfos with root and size metadata
    calls   \* depgraph.rs: number of record_metadata calls made on mdi

vars == <<di, orig, op, pred, trace, mdi, calls>>

----------------------------------------------------------------------------
\* Generic helpers on sequences and sets.

Range(s) == {s[i] : i \in 1..Len(s)}

RECURSIVE SumSeq(_)
SumSeq(s) == IF s = <<>> THEN 0 ELSE Head(s) + SumSeq(Tail(s))

RECURSIVE SumOver(_, _)
\* sum of f[x] over the finite set S
SumOver(S, f) ==
    IF S = {} THEN 0
    ELSE LET x == CHOOSE y \in S : TRUE IN f[x] + SumOver(S \ {x}, f)

RECURSIVE SetToSeq(_)
\* the elements of a finite set of naturals, in ascending order
SetToSeq(S) ==
    IF S = {} THEN <<>>
    ELSE LET m == CHOOSE a \in S : \A b \in S : a <= b
         IN <<m>> \o SetToSeq(S \ {m})

RECURSIVE PairsToSeq(_)
\* the elements of a finite set of pairs of naturals, in lexicographic order
PairsToSeq(S) ==
    IF S = {} THEN <<>>
    ELSE LET m == CHOOSE a \in S : \A b \in S :
                      a[1] < b[1] \/ (a[1] = b[1] /\ a[2] <= b[2])
         IN <<m>> \o PairsToSeq(S \ {m})

----------------------------------------------------------------------------
\* petgraph::graph::Graph

EmptyGraph == [nodes |-> <<>>, edges |-> <<>>]

NodeIds(g) == 1..Len(g.nodes)

add_node(g, w) == [g EXCEPT !.nodes = Append(@, w)]

add_edge(g, a, b) == [g EXCEPT !.edges = Append(@, <<a, b>>)]

find_edge(g, a, b) == <<a, b>> \in Range(g.edges)

\* update_edge adds the edge only when the graph does not hold it yet
update_edge(g, a, b) == IF find_edge(g, a, b) THEN g ELSE add_edge(g, a, b)

\* targets of the outgoing edges of a, the most recently added edge first
RECURSIVE neighbors_of(_, _)
neighbors_of(edges, a) ==
    IF edges = <<>> THEN <<>>
    ELSE neighbors_of(Tail(edges), a) \o
         (IF Head(edges)[1] = a THEN <<Head(edges)[2]>> ELSE <<>>)

\* the set of nodes reachable from the set S along edges (S included)
RECURSIVE ReachSet(_, _)
ReachSet(edges, S) ==
    LET T == S \cup {e[2] : e \in {f \in Range(edges) : f[1] \in S}}
    IN IF T = S THEN S ELSE ReachSet(edges, T)

\* One expansion step of a traversal: the successors not yet discovered are
\* marked and handed back in the order they are to be pushed.
RECURSIVE Discover(_, _, _)
Discover(succs, discovered, add) ==
    IF succs = <<>> THEN [discovered |-> discovered, add |-> add]
    ELSE IF Head(succs) \in discovered
         THEN Discover(Tail(succs), discovered, add)
         ELSE Discover(Tail(succs), discovered \cup {Head(succs)},
                       Append(add, Head(succs)))

\* petgraph::visit::Bfs: the sequence of nodes that successive next() calls
\* return, for a queue and a discovered set.
RECURSIVE BfsRun(_, _, _)
BfsRun(edges, queue, discovered) ==
    IF queue = <<>> THEN <<>>
    ELSE LET node == Head(queue)
             r == Discover(neighbors_of(edges, node), discovered, <<>>)
         IN <<node>> \o BfsRun(edges, Tail(queue) \o r.add, r.discovered)

Bfs(edges, start) == BfsRun(edges, <<start>>, {start})

\* petgraph::visit::Dfs over an EdgeFiltered view: the edges out of a node
\* are followed only when the node is in `follow`.
RECURSIVE DfsRun(_, _, _, _)
DfsRun(edges, stack, discovered, follow) ==
    IF stack = <<>> THEN <<>>
    ELSE LET node == stack[Len(stack)]
             rest == SubSeq(stack, 1, Len(stack) - 1)
             succs == IF node \in follow THEN neighbors_of(edges, node) ELSE <<>>
             r == Discover(succs, discovered, <<>>)
         IN <<node>> \o DfsRun(edges, rest \o r.add, r.discovered, follow)

Dfs(edges, start, follow) == DfsRun(edges, <<start>>, {start}, follow)

----------------------------------------------------------------------------
\* Derivation and DepInfos as reduction.rs uses them: a node weight is
\* (path, size, is_root) and a DepInfos is (roots, graph).  A path is a pair
\* (kind of name, number): the number keeps the paths of a store distinct.

TRANSIENT_ROOT_NAME == <<"{memory/temp}", 0>>
FILTERED_ROOT_NAME == <<"{filtered out}", 0>>

Derivation(path, size, is_root) ==
    [path |-> path, size |-> size, is_root |-> is_root]

dummy == Derivation(<<"{dummy}", 0>>, 0, FALSE)

\* a Memory or Temporary node
is_transient_root(drv) == drv.path[1] \in {"{memory:", "{temp:"}

\* the roots of a graph are its nodes flagged is_root, in index order
new_from_graph(g) ==
    [roots |-> SetToSeq({i \in NodeIds(g) : g.nodes[i].is_root}), graph |-> g]

Reachable(d) == ReachSet(d.graph.edges, Range(d.roots))

SizeOf(g) == [i \in NodeIds(g) |-> g.nodes[i].size]

\* reachable_size for a DepInfos with a list of roots: the sum of the sizes
\* of the nodes reachable from the roots
roots_reachable_size(d) == SumOver(Reachable(d), SizeOf(d.graph))

\* sum of the sizes of all the nodes
total_size(d) == SumOver(NodeIds(d.graph), SizeOf(d.graph))

roots_name(d) == {d.graph.nodes[i].path : i \in Range(d.roots)}

roots_attr_coherent(d) ==
    /\ Range(d.roots) = {i \in NodeIds(d.graph) : d.graph.nodes[i].is_root}
    /\ Len(d.roots) = Cardinality(Range(d.roots))

----------------------------------------------------------------------------
\* reduction.rs: merge_transient_roots

\* MergeFilter without the edge from the fake root to a transient root
RECURSIVE MergeFilter_NoEdge(_, _, _)
MergeFilter_NoEdge(roots, graph, fake_root_idx) ==
    IF roots = <<>> THEN [roots |-> <<>>, graph |-> graph]
    ELSE LET idx == Head(roots)
         IN IF is_transient_root(graph.nodes[idx])
            THEN MergeFilter_NoEdge(Tail(roots),
                     [graph EXCEPT !.nodes[idx].is_root = FALSE],
                     fake_root_idx)
            ELSE LET r == MergeFilter_NoEdge(Tail(roots), graph, fake_root_idx)
                 IN [roots |-> <<idx>> \o r.roots, graph |-> r.graph]

\* MergeFilter leaving the is_root flag of a transient root set
RECURSIVE MergeFilter_KeepFlag(_, _, _)
MergeFilter_KeepFlag(roots, graph, fake_root_idx) ==
    IF roots = <<>> THEN [roots |-> <<>>, graph |-> graph]
    ELSE LET idx == Head(roots)
         IN IF is_transient_root(graph.nodes[idx])
            THEN MergeFilter_KeepFlag(Tail(roots),
                     add_edge(graph, fake_root_idx, idx), fake_root_idx)
            ELSE LET r == MergeFilter_KeepFlag(Tail(roots), graph, fake_root_idx)
                 IN [roots |-> <<idx>> \o r.roots, graph |-> r.graph]

\* the filter over the roots: a transient root gets an edge from the fake
\* root and loses its flag, and only the other roots are collected
RECURSIVE MergeFilter(_, _, _)
MergeFilter(roots, graph, fake_root_idx) ==
    IF roots = <<>> THEN [roots |-> <<>>, graph |-> graph]
    ELSE LET idx == Head(roots)
         IN IF is_transient_root(graph.nodes[idx])
            THEN MergeFilter(Tail(roots),
                     [add_edge(graph, fake_root_idx, idx)
                         EXCEPT !.nodes[idx].is_root = FALSE],
                     fake_root_idx)
            ELSE LET r == MergeFilter(Tail(roots), graph, fake_root_idx)
                 IN [roots |-> <<idx>> \o r.roots, graph |-> r.graph]

merge_transient_roots(d) ==
    LET fake_root == Derivation(TRANSIENT_ROOT_NAME, 0, TRUE)
        graph == add_node(d.graph, fake_root)
        fake_root_idx == Len(graph.nodes)
        r == MergeFilter(d.roots, graph, fake_root_idx)
    IN [roots |-> Append(r.roots, fake_root_idx), graph |-> r.graph]

----------------------------------------------------------------------------
\* reduction.rs: condense

\* LabelRoots labelling a root and its direct dependencies only
RECURSIVE LabelRoots_OneHop(_, _, _, _)
LabelRoots_OneHop(i, roots, gedges, labels) ==
    IF i > Len(roots) THEN labels
    ELSE LET visited == {roots[i]} \cup Range(neighbors_of(gedges, roots[i]))
         IN LabelRoots_OneHop(i + 1, roots, gedges,
                [v \in DOMAIN labels |->
                    IF v \in visited THEN labels[v] \cup {i} ELSE labels[v]])

\* "label each node with roots it is a dependence of": one breadth-first
\* walk per root, root number i setting bit i of every node it visits
RECURSIVE LabelRoots(_, _, _, _)
LabelRoots(i, roots, gedges, labels) ==
    IF i > Len(roots) THEN labels
    ELSE LET visited == Range(Bfs(gedges, roots[i]))
         IN LabelRoots(i + 1, roots, gedges,
                [v \in DOMAIN labels |->
                    IF v \in visited THEN labels[v] \cup {i} ELSE labels[v]])

\* CondenseNodes copying the weight of the representative instead of
\* swapping it out, so that its size is added a second time
RECURSIVE CondenseNodes_Clone(_, _, _, _)
CondenseNodes_Clone(order, labels, fake_root, st) ==
    IF order = <<>> THEN st
    ELSE LET idx == Head(order)
             representative == labels[idx]
             fresh == representative \notin DOMAIN st.new_ids
             added == IF fresh THEN add_node(st.new_graph, st.graph.nodes[idx])
                      ELSE st.new_graph
             new_ids == IF fresh
                        THEN (representative :> Len(added.nodes)) @@ st.new_ids
                        ELSE st.new_ids
             new_node == new_ids[representative]
         IN IF idx >= fake_root
            THEN CondenseNodes_Clone(Tail(order), labels, fake_root, st)
            ELSE CondenseNodes_Clone(Tail(order), labels, fake_root,
                    [graph |-> st.graph,
                     new_graph |-> [added EXCEPT !.nodes[new_node].size =
                                        @ + st.graph.nodes[idx].size],
                     new_ids |-> new_ids,
                     into |-> (idx :> new_node) @@ st.into])

\* the loop over the walk from the fake root: the first node met with a
\* label becomes the node of that label in new_graph, and every node met
\* adds its (remaining) size to the node of its label
RECURSIVE CondenseNodes(_, _, _, _)
CondenseNodes(order, labels, fake_root, st) ==
    IF order = <<>> THEN st
    ELSE LET idx == Head(order)
             representative == labels[idx]
             fresh == representative \notin DOMAIN st.new_ids
             graph == IF fresh THEN [st.graph EXCEPT !.nodes[idx] = dummy]
                      ELSE st.graph
             added == IF fresh THEN add_node(st.new_graph, st.graph.nodes[idx])
                      ELSE st.new_graph
             new_ids == IF fresh
                        THEN (representative :> Len(added.nodes)) @@ st.new_ids
                        ELSE st.new_ids
             new_node == new_ids[representative]
         IN IF idx >= fake_root
            THEN CondenseNodes(Tail(order), labels, fake_root, st)
            ELSE CondenseNodes(Tail(order), labels, fake_root,
                    [graph |-> graph,
                     new_graph |-> [added EXCEPT !.nodes[new_node].size =
                                        @ + graph.nodes[idx].size],
                     new_ids |-> new_ids,
                     into |-> (idx :> new_node) @@ st.into])

\* CondenseEdges with add_edge in place of update_edge
RECURSIVE CondenseEdges_AddEdge(_, _, _, _)
CondenseEdges_AddEdge(edges, labels, new_ids, new_graph) ==
    IF edges = <<>> THEN new_graph
    ELSE LET from == labels[Head(edges)[1]]
             to == labels[Head(edges)[2]]
         IN IF from # to /\ from \in DOMAIN new_ids /\ to \in DOMAIN new_ids
            THEN CondenseEdges_AddEdge(Tail(edges), labels, new_ids,
                     add_edge(new_graph, new_ids[from], new_ids[to]))
            ELSE CondenseEdges_AddEdge(Tail(edges), labels, new_ids, new_graph)

\* "keep edges": an edge between two nodes of different labels, both with a
\* counterpart in new_graph, is put between the counterparts once
RECURSIVE CondenseEdges(_, _, _, _)
CondenseEdges(edges, labels, new_ids, new_graph) ==
    IF edges = <<>> THEN new_graph
    ELSE LET from == labels[Head(edges)[1]]
             to == labels[Head(edges)[2]]
         IN IF from # to /\ from \in DOMAIN new_ids /\ to \in DOMAIN new_ids
            THEN CondenseEdges(Tail(edges), labels, new_ids,
                     update_edge(new_graph, new_ids[from], new_ids[to]))
            ELSE CondenseEdges(Tail(edges), labels, new_ids, new_graph)

\* the end of condense, from the labels, the walk and the grouped nodes
CondenseFinish(gedges, labels, order, st) ==
    [di |-> new_from_graph(CondenseEdges(gedges, labels, st.new_ids, st.new_graph)),
     labels |-> labels, order |-> order,
     new_ids |-> st.new_ids, into |-> st.into]

CondenseLabelled(d, fake_root, gedges, labels, order) ==
    CondenseFinish(gedges, labels, order,
        CondenseNodes(order, labels, fake_root,
            [graph |-> d.graph, new_graph |-> EmptyGraph,
             new_ids |-> <<>>, into |-> <<>>]))

\* CondenseGraph going through the walk from its end, so that the vertex of
\* a class visited last stands for it
CondenseGraph_LastVisited(d, fake_root, gedges) ==
    CondenseLabelled(d, fake_root, gedges,
        LabelRoots(1, d.roots, gedges, [v \in 1..fake_root |-> {}]),
        LET walk == Tail(Bfs(gedges, fake_root))
        IN [k \in 1..Len(walk) |-> walk[Len(walk) + 1 - k]])

CondenseGraph(d, fake_root, gedges) ==
    CondenseLabelled(d, fake_root, gedges,
        LabelRoots(1, d.roots, gedges, [v \in 1..fake_root |-> {}]),
        Tail(Bfs(gedges, fake_root)))

\* condense with its local variables: the labels of g, the order of the walk
\* from the fake root, new_ids, and for each node met the node of new_graph
\* it was added to
CondenseRun(d) ==
    CondenseGraph(d, Len(d.graph.nodes) + 1,
        d.graph.edges \o
        [k \in 1..Len(d.roots) |-> <<Len(d.graph.nodes) + 1, d.roots[k]>>])

condense(d) == CondenseRun(d).di

----------------------------------------------------------------------------
\* reduction.rs: keep.  The filter is the set of paths it returns true on.

\* KeepNodes retaining the nodes the filter accepts and no other root
RECURSIVE KeepNodes_NoRoots(_, _, _, _)
KeepNodes_NoRoots(idx, n, filter, st) ==
    IF idx > n THEN st
    ELSE LET w == st.graph.nodes[idx]
             added == add_node(st.new_graph, w)
         IN IF w.path \in filter
            THEN KeepNodes_NoRoots(idx + 1, n, filter,
                     [st EXCEPT !.graph = [@ EXCEPT !.nodes[idx] = dummy],
                                !.old_kept_ids = @ \cup {idx},
                                !.new_graph = added,
                                !.new_ids = (idx :> Len(added.nodes)) @@ @])
            ELSE KeepNodes_NoRoots(idx + 1, n, filter, st)

\* "loop over nodes to see which we keep"
RECURSIVE KeepNodes(_, _, _, _)
KeepNodes(idx, n, filter, st) ==
    IF idx > n THEN st
    ELSE LET w == st.graph.nodes[idx]
             keep_ == w.path \in filter
             graph == [st.graph EXCEPT !.nodes[idx] = dummy]
             added == add_node(st.new_graph, w)
         IN IF w.is_root \/ keep_
            THEN IF keep_
                 THEN KeepNodes(idx + 1, n, filter,
                          [st EXCEPT !.graph = graph,
                                     !.old_kept_ids = @ \cup {idx},
                                     !.new_graph = added,
                                     !.new_ids = (idx :> Len(added.nodes)) @@ @])
                 ELSE KeepNodes(idx + 1, n, filter,
                          [st EXCEPT !.graph = graph,
                                     !.old_kept_ids = @ \cup {idx},
                                     !.ondemand_weights = (idx :> w) @@ @])
            ELSE KeepNodes(idx + 1, n, filter, st)

\* KeepVisit leaving the size of an absorbed node in place
RECURSIVE KeepVisit_NoZero(_, _, _)
KeepVisit_NoZero(old, order, st) ==
    IF order = <<>> THEN st
    ELSE LET idx == Head(order)
             pending == old \in DOMAIN st.ondemand_weights
         IN IF idx \in DOMAIN st.new_ids
            THEN LET added == IF pending
                              THEN add_node(st.new_graph, st.ondemand_weights[old])
                              ELSE st.new_graph
                     new == IF pending THEN Len(added.nodes) ELSE st.new_ids[old]
                 IN KeepVisit_NoZero(old, Tail(order),
                        [st EXCEPT
                            !.new_graph = add_edge(added, new, st.new_ids[idx]),
                            !.new_ids = IF pending THEN (old :> new) @@ @ ELSE @,
                            !.ondemand_weights =
                                [k \in DOMAIN @ \ {old} |-> @[k]]])
            ELSE LET amount == st.graph.nodes[idx].size
                 IN KeepVisit_NoZero(old, Tail(order),
                        [st EXCEPT
                            !.ondemand_weights =
                                IF pending THEN [@ EXCEPT ![old].size = @ + amount]
                                ELSE @,
                            !.new_graph =
                                IF pending THEN @
                                ELSE [@ EXCEPT !.nodes[st.new_ids[old]].size =
                                                   @ + amount],
                            !.absorbed = @ \cup {<<old, idx, amount>>}])

\* the body of the walk from old, for the nodes the walk returns after old
RECURSIVE KeepVisit(_, _, _)
KeepVisit(old, order, st) ==
    IF order = <<>> THEN st
    ELSE LET idx == Head(order)
             pending == old \in DOMAIN st.ondemand_weights
         IN IF idx \in DOMAIN st.new_ids
            THEN \* kept child: an edge from old, added to new_graph on demand
                 LET added == IF pending
                              THEN add_node(st.new_graph, st.ondemand_weights[old])
                              ELSE st.new_graph
                     new == IF pending THEN Len(added.nodes) ELSE st.new_ids[old]
                 IN KeepVisit(old, Tail(order),
                        [st EXCEPT
                            !.new_graph = add_edge(added, new, st.new_ids[idx]),
                            !.new_ids = IF pending THEN (old :> new) @@ @ ELSE @,
                            !.ondemand_weights =
                                [k \in DOMAIN @ \ {old} |-> @[k]]])
            ELSE \* not kept: its size goes upstream and is zeroed in place
                 LET amount == st.graph.nodes[idx].size
                 IN KeepVisit(old, Tail(order),
                        [st EXCEPT
                            !.ondemand_weights =
                                IF pending THEN [@ EXCEPT ![old].size = @ + amount]
                                ELSE @,
                            !.new_graph =
                                IF pending THEN @
                                ELSE [@ EXCEPT !.nodes[st.new_ids[old]].size =
                                                   @ + amount],
                            !.graph = [@ EXCEPT !.nodes[idx].size = 0],
                            !.absorbed = @ \cup {<<old, idx, amount>>}])

\* "visit the old graph to add new edges accordingly": one filtered
\* depth-first walk per kept node or root, in index order
RECURSIVE KeepWalks(_, _)
KeepWalks(olds, st) ==
    IF olds = <<>> THEN st
    ELSE LET old == Head(olds)
             follow == {old} \cup (NodeIds(st.graph) \ st.old_kept_ids)
             order == Tail(Dfs(st.graph.edges, old, follow))
         IN KeepWalks(Tail(olds), KeepVisit(old, order, st))

\* the end of keep: the dummy root with the remaining size
KeepFinish(st, remaining_size) ==
    LET fake_root == Derivation(FILTERED_ROOT_NAME, remaining_size, TRUE)
        new_graph == IF remaining_size > 0
                     THEN add_node(st.new_graph, fake_root)
                     ELSE st.new_graph
    IN [di |-> new_from_graph(new_graph), new_ids |-> st.new_ids,
        ondemand_weights |-> st.ondemand_weights,
        old_kept_ids |-> st.old_kept_ids, absorbed |-> st.absorbed,
        remaining_size |-> remaining_size]

KeepRemaining(st) ==
    KeepFinish(st, SumOver(DOMAIN st.ondemand_weights,
                           [k \in DOMAIN st.ondemand_weights |->
                               st.ondemand_weights[k].size]))

KeepFrom(st0) == KeepRemaining(KeepWalks(SetToSeq(st0.old_kept_ids), st0))

\* keep with its local variables when it returns
KeepRun(d, filter) ==
    KeepFrom(KeepNodes(1, Len(d.graph.nodes), filter,
                 [graph |-> d.graph, new_graph |-> EmptyGraph,
                  new_ids |-> <<>>, ondemand_weights |-> <<>>,
                  old_kept_ids |-> {}, absorbed |-> {}]))

keep(d, filter) == KeepRun(d, filter).di

----------------------------------------------------------------------------
\* The input graphs: up to MaxNodes nodes with distinct paths, node i of size
\* 2^(i-1) but for at most one node of size 0 (when zeros), any set of
\* roots, up to MaxEdges distinct edges between different nodes in
\* lexicographic order, one of them possibly reported twice (by Dups).

STORE == "/nix/store/"
MEMORY == "{memory:"
TEMP == "{temp:"

Pairs(n) == {e \in (1..n) \X (1..n) : e[1] # e[2]}

InputEdges(E, dup) ==
    LET es == PairsToSeq(E)
    IN IF dup /\ es # <<>> THEN Append(es, es[1]) ELSE es

\* the size of node i when node `zero` is the one of size 0 (0: none is)
InputSize(i, zero) == IF i = zero THEN 0 ELSE 2^(i-1)

InputGraph(n, E, dup, zero, rt, kd) ==
    [nodes |-> [i \in 1..n |->
                   Derivation(<<kd[i], i>>, InputSize(i, zero), rt[i])],
     edges |-> InputEdges(E, dup)]

NoTrace == <<>>
NoMdi == <<>>

InitReduction(Kinds, Dups, zeros) ==
    \E n \in 0..MaxNodes :
      \E E \in SUBSET Pairs(n) :
        /\ Cardinality(E) <= MaxEdges
        /\ \E dup \in Dups, zero \in (IF zeros THEN 0..n ELSE {0}),
              rt \in [1..n -> BOOLEAN], kd \in [1..n -> Kinds] :
              /\ di = new_from_graph(InputGraph(n, E, dup, zero, rt, kd))
              /\ orig = di
              /\ op = "input"
              /\ pred = {}
              /\ trace = NoTrace
              /\ mdi = NoMdi
              /\ calls = 0

\* merge_transient_roots reads the paths and no size: all three kinds of
\* path, every size positive.  condense and keep read no path: store paths
\* only, a size of 0 allowed, and for condense a repeated edge.
InitMerge == InitReduction({STORE, MEMORY, TEMP}, {FALSE}, FALSE)
InitCondense == InitReduction({STORE}, BOOLEAN, TRUE)
InitKeep == InitReduction({STORE}, {FALSE}, TRUE)

MergeTransientRoots ==
    /\ op = "input"
    /\ di' = merge_transient_roots(di)
    /\ orig' = di
    /\ op' = "merge_transient_roots"
    /\ trace' = NoTrace
    /\ UNCHANGED <<pred, mdi, calls>>

Condense ==
    /\ op = "input"
    /\ \E run \in {CondenseRun(di)} :
          /\ di' = run.di
          /\ trace' = [order |-> run.order, into |-> run.into]
    /\ orig' = di
    /\ op' = "condense"
    /\ UNCHANGED <<pred, mdi, calls>>

Keep ==
    /\ op = "input"
    /\ \E filter \in SUBSET {di.graph.nodes[i].path : i \in NodeIds(di.graph)} :
         \E run \in {KeepRun(di, filter)} :
            /\ di' = run.di
            /\ trace' = [new_ids |-> run.new_ids, absorbed |-> run.absorbed,
                          remaining_size |-> run.remaining_size]
            /\ pred' = filter
    /\ orig' = di
    /\ op' = "keep"
    /\ UNCHANGED <<mdi, calls>>

NextMerge == MergeTransientRoots
NextCondense == Condense
NextKeep == Keep

SpecMerge == InitMerge /\ [][NextMerge]_vars
SpecCondense == InitCondense /\ [][NextCondense]_vars
SpecKeep == InitKeep /\ [][NextKeep]_vars

----------------------------------------------------------------------------
\* depgraph.rs: DepInfos with a designated root and SizeMetadata.  A node
\* weight is a DepNode (description, size); an Option is a sequence of
\* length 0 (None) or 1 (Some).

MaxCalls == 2

None == <<>>
Some(x) == <<x>>

Reachability == {"Connected", "Disconnected"}
DedupAwareness == {"Aware", "Unaware"}

DepNode(description, sz) == [description |-> description, size |-> sz]

\* the nodes a fresh Dfs from the root returns, in order
dfs(d) == Dfs(d.graph.edges, d.root, NodeIds(d.graph))

\* sum of the sizes of the nodes the walk from the root visits
reachable_size(d) ==
    LET walk == dfs(d)
    IN SumSeq([k \in 1..Len(walk) |-> d.graph.nodes[walk[k]].size])

\* sum of the sizes of all the nodes
size(d) == SumSeq([k \in 1..Len(d.graph.nodes) |-> d.graph.nodes[k].size])

\* record_metadata filling the Connected cell whether or not it is set
record_metadata_Overwrite(d) ==
    LET dedup == d.metadata.dedup
        d1 == [d EXCEPT !.metadata.size[dedup]["Connected"] =
                            Some(reachable_size(d))]
    IN IF /\ d1.metadata.reachable = "Disconnected"
          /\ d1.metadata.size[dedup]["Disconnected"] = None
       THEN [d1 EXCEPT !.metadata.size[dedup]["Disconnected"] = Some(size(d1))]
       ELSE d1

record_metadata(d) ==
    LET dedup == d.metadata.dedup
        d1 == IF d.metadata.size[dedup]["Connected"] = None
              THEN [d EXCEPT !.metadata.size[dedup]["Connected"] =
                                 Some(reachable_size(d))]
              ELSE d
    IN IF /\ d1.metadata.reachable = "Disconnected"
          /\ d1.metadata.size[dedup]["Disconnected"] = None
       THEN [d1 EXCEPT !.metadata.size[dedup]["Disconnected"] = Some(size(d1))]
       ELSE d1

\* The DepInfos record_metadata is called on: any graph of the input bounds
\* with its first or last node as root, either mode of reachability and of
\* dedup-awareness, and a size table whose cells are unset or hold a value
\* recorded earlier.
StaleSize == 9

InitMetadata ==
    \E n \in 1..MaxNodes :
      \E E \in SUBSET Pairs(n) :
        /\ Cardinality(E) <= MaxEdges
        /\ \E zero \in 0..n, root \in {1, n},
              reachable \in Reachability, dedup \in DedupAwareness,
              table \in [DedupAwareness -> [Reachability -> {None, Some(StaleSize)}]] :
              mdi = [graph |-> [nodes |-> [i \in 1..n |->
                                    DepNode(<<"Path", i>>, InputSize(i, zero))],
                                edges |-> PairsToSeq(E)],
                     root |-> root,
                     metadata |-> [reachable |-> reachable, dedup |-> dedup,
                                   size |-> table]]
    /\ orig = mdi
    /\ calls = 0
    /\ di = new_from_graph(EmptyGraph)
    /\ op = "input"
    /\ pred = {}
    /\ trace = NoTrace

RecordMetadata ==
    /\ calls < MaxCalls
    /\ mdi' = record_metadata(mdi)
    /\ calls' = calls + 1
    /\ UNCHANGED <<di, orig, op, pred, trace>>

NextMetadata == RecordMetadata

SpecMetadata == InitMetadata /\ [][NextMetadata]_vars

----------------------------------------------------------------------------
\* depgraph.rs: classification of the facts the store reports.  A path is
\* the sequence of the pieces of its bytes that the code tells apart, so that
\* "/proc/1/maps" is <<"/", "proc/", "1/maps">> and the empty path is <<>>.

NodeKind ==
    {"Path", "Link", "Dummy", "FilteredOut", "Memory", "Temporary",
     "Transient", "Shared"}

is_gc_root(kind) == kind \in {"Transient", "Link", "Memory", "Temporary"}

is_transient(kind) == kind \in {"Memory", "Temporary"}

\* a NodeDescription: its kind and its payload
NodeDescription(kind, path) == [kind |-> kind, path |-> path]

\* slice::starts_with
starts_with(path, prefix) ==
    /\ Len(path) >= Len(prefix)
    /\ SubSeq(path, 1, Len(prefix)) = prefix

\* the two ways DepNode::new ends without a node
PanicUnknown == "Unknown store path type"
PanicIndex == "index out of bounds"

Classified(description, sz) == [panic |-> None, node |-> Some(DepNode(description, sz))]
Panicked(message) == [panic |-> Some(message), node |-> None]

\* DepNode::new: the node of a fact p = (path, is_root, size), or the panic
\* it ends in; path[0] of an empty path is an index out of bounds
DepNode_new(p) ==
    IF p.path = <<>> THEN Panicked(PanicIndex)
    ELSE IF p.path[1] = "/"
    THEN IF starts_with(p.path, <<"/", "proc/">>)
         THEN Classified(NodeDescription("Memory", p.path), p.size)
         ELSE IF p.is_root # 0
         THEN Classified(NodeDescription("Link", p.path), p.size)
         ELSE Classified(NodeDescription("Path", p.path), p.size)
    ELSE IF \/ starts_with(p.path, <<"{memory:">>)
            \/ p.path = <<"{lsof}">>
            \/ p.path = <<"{censored}">>
    THEN Classified(NodeDescription("Memory", p.path), p.size)
    ELSE IF starts_with(p.path, <<"{temp:">>)
    THEN Classified(NodeDescription("Temporary", p.path), p.size)
    ELSE Panicked(PanicUnknown)

\* DepNode::dummy of depgraph.rs
DepNode_dummy == DepNode(NodeDescription("Dummy", None), 0)

\* register_edge without the test from = to
register_edge_NoGuard(g, from, to) == add_edge(g, from, to)

\* register_edge: nothing for from = to, a new edge otherwise
register_edge(g, from, to) == IF from = to THEN g ELSE add_edge(g, from, to)

\* the nodes of g whose kind is a GC root, in index order
gc_roots(g) ==
    SetToSeq({i \in NodeIds(g) : is_gc_root(g.nodes[i].description.kind)})

\* the empty size table
NoSizes == [a \in DedupAwareness |-> [r \in Reachability |-> None]]

\* read_from_store leaving the size table empty
read_from_store_NoRecord(g, root_data) ==
    LET g1 == IF root_data = None THEN add_node(g, DepNode_dummy) ELSE g
        root_idx == IF root_data = None THEN Len(g1.nodes) ELSE 1
        roots == IF root_data = None THEN gc_roots(g1) ELSE <<>>
    IN [graph |-> [g1 EXCEPT !.edges =
                      @ \o [k \in 1..Len(roots) |-> <<root_idx, roots[k]>>]],
        root |-> root_idx,
        metadata |-> [reachable |-> IF root_data = None THEN "Disconnected"
                                    ELSE "Connected",
                      dedup |-> "Unaware", size |-> NoSizes]]

\* read_from_store once populateGraph returned 0: the root (a new Dummy node
\* with an edge to every GC root, or the first node for an explicit root),
\* the modes, and the first record_metadata
read_from_store(g, root_data) ==
    LET g1 == IF root_data = None THEN add_node(g, DepNode_dummy) ELSE g
        root_idx == IF root_data = None THEN Len(g1.nodes) ELSE 1
        roots == IF root_data = None THEN gc_roots(g1) ELSE <<>>
    IN record_metadata(
         [graph |-> [g1 EXCEPT !.edges =
                        @ \o [k \in 1..Len(roots) |-> <<root_idx, roots[k]>>]],
          root |-> root_idx,
          metadata |-> [reachable |-> IF root_data = None THEN "Disconnected"
                                      ELSE "Connected",
                        dedup |-> "Unaware", size |-> NoSizes]])

\* read_from_store returning the error 1 for every nonzero status
read_from_store_result_ErrOne(res, g, root_data) ==
    IF res # 0 THEN [Err |-> Some(1), Ok |-> None]
    ELSE [Err |-> None, Ok |-> Some(read_from_store(g, root_data))]

\* the Result of read_from_store for the status res of populateGraph
read_from_store_result(res, g, root_data) ==
    IF res # 0 THEN [Err |-> Some(res), Ok |-> None]
    ELSE [Err |-> None, Ok |-> Some(read_from_store(g, root_data))]

\* The DepInfos (roots, graph) that main hands to reduction.rs for a built
\* graph: the nodes the store reported, a Memory or Temporary node under a
\* {memory: or {temp: path, the GC roots flagged is_root, and the reported
\* edges.
reduction_input(d) ==
    LET n == Len(d.graph.nodes) - 1
        tag(k) == IF k = "Memory" THEN "{memory:"
                  ELSE IF k = "Temporary" THEN "{temp:" ELSE "/nix/store/"
    IN new_from_graph(
         [nodes |-> [i \in 1..n |->
                       Derivation(<<tag(d.graph.nodes[i].description.kind), i>>,
                                  d.graph.nodes[i].size,
                                  is_gc_root(d.graph.nodes[i].description.kind))],
          edges |-> SelectSeq(d.graph.edges, LAMBDA e : e[1] # d.root)])

----------------------------------------------------------------------------
\* The program: main calls read_from_store, which hands a fresh graph to
\* populateGraph; populateGraph reports nodes and edges through
\* register_node and register_edge, then returns a status.  On status 0
\* read_from_store finishes the DepInfos, and main merges, condenses, filters
\* and renders it.  op is the position in the program; during the build
\* trace holds the locals of read_from_store and the last fact reported.

MaxFacts == 2      \* register_node calls of a run
MaxDeps == 2       \* register_edge calls of a run
MaxStatus == 2     \* statuses populateGraph returns: 0..MaxStatus
MinSize == 2       \* the --min-size threshold, when given
MaxShown == 1      \* the --nodes count, when given: 1..MaxShown

\* the paths the store reports, of every shape DepNode::new tells apart
RawPaths ==
    {<<"/", "proc/", "1/maps">>, <<"/", "nix/store/", "a-b">>,
     <<"{memory:", "1}">>, <<"{lsof}">>, <<"{censored}">>, <<"{lsof}", "x">>,
     <<"{temp:", "1}">>, <<"shared:", "a">>, <<>>}

InitBuild ==
    /\ \E root_data \in {None, Some("root")} :
          trace = [g |-> EmptyGraph, root_data |-> root_data, edge_calls |-> 0,
                   fact |-> None, res |-> None, err |-> None, panic |-> None,
                   exit |-> None]
    /\ op = "populateGraph"
    /\ mdi = NoMdi
    /\ di = new_from_graph(EmptyGraph)
    /\ orig = di
    /\ pred = {}
    /\ calls = 0

\* register_node: the fact is classified and the node added, or the program
\* panics
RegisterNode ==
    /\ op = "populateGraph"
    /\ Len(trace.g.nodes) < MaxFacts
    /\ \E path \in RawPaths, is_root \in {0, 1} :
         \E p \in {[path |-> path, is_root |-> is_root,
                    size |-> 2^Len(trace.g.nodes)]} :
           \E r \in {DepNode_new(p)} :
              IF r.panic = None
              THEN /\ trace' = [trace EXCEPT !.g = add_node(@, r.node[1]),
                                             !.fact = Some(p)]
                   /\ UNCHANGED op
              ELSE /\ trace' = [trace EXCEPT !.fact = Some(p), !.panic = r.panic]
                   /\ op' = "panic"
    /\ UNCHANGED <<di, orig, pred, mdi, calls>>

RegisterEdge ==
    /\ op = "populateGraph"
    /\ trace.edge_calls < MaxDeps
    /\ \E from \in NodeIds(trace.g), to \in NodeIds(trace.g) :
          trace' = [trace EXCEPT !.g = register_edge(@, from, to),
                                 !.edge_calls = @ + 1]
    /\ UNCHANGED <<di, orig, op, pred, mdi, calls>>

\* populateGraph returns res and read_from_store runs to its end: Err(res)
\* and no graph for res # 0, the finished DepInfos otherwise.  With an
\* explicit root the store reports the root first and then its closure, so
\* that every node is reachable from the first one (Reachability::Connected).
ReadFromStoreReturns ==
    /\ op = "populateGraph"
    /\ \E res \in 0..MaxStatus :
         /\ (res = 0 /\ trace.root_data # None) =>
                /\ trace.g.nodes # <<>>
                /\ ReachSet(trace.g.edges, {1}) = NodeIds(trace.g)
         /\ \E r \in {read_from_store_result(res, trace.g, trace.root_data)} :
              IF r.Ok = None
              THEN /\ op' = "Err"
                   /\ trace' = [trace EXCEPT !.g = EmptyGraph,
                                             !.res = Some(res), !.err = r.Err]
                   /\ UNCHANGED mdi
              ELSE /\ op' = "Ok"
                   /\ trace' = [trace EXCEPT !.res = Some(res)]
                   /\ mdi' = r.Ok[1]
    /\ UNCHANGED <<di, orig, pred, calls>>

\* main, on Err(res): std::process::exit(res)
MainExit ==
    /\ op = "Err"
    /\ op' = "exit"
    /\ trace' = [trace EXCEPT !.exit = trace.err]
    /\ UNCHANGED <<di, orig, pred, mdi, calls>>

\* a later record_metadata call on the DepInfos that was built
RecordMetadataBuilt ==
    /\ op = "Ok"
    /\ RecordMetadata

\* main: g = reduction::merge_transient_roots(g)
MainMerge ==
    /\ op = "Ok"
    /\ trace.root_data = None
    /\ calls = 0
    /\ \E d \in {reduction_input(mdi)} :
          /\ orig' = d
          /\ di' = merge_transient_roots(d)
    /\ op' = "merge_transient_roots"
    /\ trace' = NoTrace
    /\ UNCHANGED <<pred, mdi, calls>>

\* main: g = reduction::condense(g)
MainCondense ==
    /\ op = "merge_transient_roots"
    /\ \E run \in {CondenseRun(di)} :
          /\ di' = run.di
          /\ trace' = [order |-> run.order, into |-> run.into]
    /\ orig' = di
    /\ op' = "condense"
    /\ UNCHANGED <<pred, mdi, calls>>

\* the smallest of the n biggest sizes of g: sizes[len - n] of the sorted sizes
nth_biggest(g, n) ==
    CHOOSE s \in {g.nodes[i].size : i \in NodeIds(g)} :
        /\ Cardinality({i \in NodeIds(g) : g.nodes[i].size > s}) < n
        /\ Cardinality({i \in NodeIds(g) : g.nodes[i].size >= s}) >= n

\* min_size as main computes it from --min-size and --nodes
main_min_size(g, min_size, n_nodes) ==
    IF n_nodes > 0 /\ n_nodes < Len(g.nodes) THEN nth_biggest(g, n_nodes)
    ELSE min_size

\* main: g = reduction::keep(g, |d| d.size >= min_size), when min_size > 0
MainKeep ==
    /\ op = "condense"
    /\ \E min_size \in {0, MinSize}, n_nodes \in 0..MaxShown :
         /\ min_size = 0 \/ n_nodes = 0
         /\ \E m \in {main_min_size(di.graph, min_size, n_nodes)} :
              /\ m > 0
              /\ \E filter \in {{di.graph.nodes[i].path : i \in
                                   {j \in NodeIds(di.graph) :
                                       di.graph.nodes[j].size >= m}}} :
                   \E run \in {KeepRun(di, filter)} :
                      /\ di' = run.di
                      /\ trace' = [new_ids |-> run.new_ids,
                                   absorbed |-> run.absorbed,
                                   remaining_size |-> run.remaining_size]
                      /\ pred' = filter
    /\ orig' = di
    /\ op' = "keep"
    /\ UNCHANGED <<mdi, calls>>

\* main: dot::render of the graph, filtered or not
MainRender ==
    /\ op \in {"condense", "keep"}
    /\ op' = "render"
    /\ UNCHANGED <<di, orig, pred, trace, mdi, calls>>

NextBuild ==
    \/ RegisterNode
    \/ RegisterEdge
    \/ ReadFromStoreReturns
    \/ MainExit
    \/ RecordMetadataBuilt
    \/ MainMerge
    \/ MainCondense
    \/ MainKeep
    \/ MainRender

SpecBuild == InitBuild /\ [][NextBuild]_vars

----------------------------------------------------------------------------
\* Every operation of the program together: the run of main from the
\* ingestion on, and each reduction called on its own on any input graph of
\* the bounds (directed cycles, unreachable nodes, a repeated edge) with,
\* for keep, any filter.

InitProgram == InitBuild \/ InitCondense

NextProgram ==
    \/ NextBuild
    \/ MergeTransientRoots
    \/ Condense
    \/ Keep

SpecProgram == InitProgram /\ [][NextProgram]_vars

----------------------------------------------------------------------------
\* The traversals, one next() call at a time.  trace is the walker: the
\* operation that runs it, the graph view it walks (edges; the nodes whose
\* outgoing edges it follows), its stack or queue (pending), its visit map
\* (discovered), the nodes next() returned so far (visited) and, for
\* reachable_size, the running sum.  An operation returns once its walk is
\* over; merge_transient_roots runs no walk.

MaxSteps == 8      \* next() calls of one walk

Walker(caller, kind, edges, start, follow) ==
    [caller |-> caller, kind |-> kind, edges |-> edges, start |-> start,
     follow |-> follow, pending |-> <<start>>, discovered |-> {start},
     visited |-> <<>>, sum |-> 0]

\* the node a next() call returns
WalkNode(w) ==
    IF w.kind = "Bfs" THEN Head(w.pending) ELSE w.pending[Len(w.pending)]

\* a next() call that pushes every successor, discovered or not
WalkStep_NoMark(w) ==
    LET node == WalkNode(w)
        rest == IF w.kind = "Bfs" THEN Tail(w.pending)
                ELSE SubSeq(w.pending, 1, Len(w.pending) - 1)
        succs == IF node \in w.follow THEN neighbors_of(w.edges, node) ELSE <<>>
    IN [w EXCEPT !.pending = rest \o succs,
                 !.visited = Append(@, node)]

\* a next() call of Bfs (front of the queue) or Dfs (top of the stack): the
\* node is returned and its successors not yet discovered are marked and
\* pushed
WalkStep(w) ==
    LET node == WalkNode(w)
        rest == IF w.kind = "Bfs" THEN Tail(w.pending)
                ELSE SubSeq(w.pending, 1, Len(w.pending) - 1)
        succs == IF node \in w.follow THEN neighbors_of(w.edges, node) ELSE <<>>
        r == Discover(succs, w.discovered, <<>>)
    IN [w EXCEPT !.pending = rest \o r.add,
                 !.discovered = r.discovered,
                 !.visited = Append(@, node)]

\* the graph g of condense: the edges of d and an edge from the fake root to
\* each root
condense_edges(d) ==
    d.graph.edges \o
    [k \in 1..Len(d.roots) |-> <<Len(d.graph.nodes) + 1, d.roots[k]>>]

\* the walks of the operations on d, keep being called with filter
Walkers(d, filter) ==
    LET ids == NodeIds(d.graph)
        kept == Range(d.roots) \cup
                {i \in ids : d.graph.nodes[i].path \in filter}
    IN {Walker("reachable_size", "Dfs", d.graph.edges, start, ids) :
            start \in ids}
       \cup {Walker("condense", "Bfs", condense_edges(d), start,
                    1..(Len(d.graph.nodes) + 1)) :
                start \in Range(d.roots) \cup {Len(d.graph.nodes) + 1}}
       \cup {Walker("keep", "Dfs", d.graph.edges, old,
                    {old} \cup (ids \ kept)) : old \in kept}
       \cup {[Walker("merge_transient_roots", "none", d.graph.edges, 0, {})
                 EXCEPT !.pending = <<>>, !.discovered = {}]}

InitWalk ==
    /\ di = new_from_graph(EmptyGraph)
    /\ orig = di
    /\ op = "start"
    /\ pred = {}
    /\ trace = NoTrace
    /\ mdi = NoMdi
    /\ calls = 0

\* an operation is called on an input graph of the bounds (one edge possibly
\* repeated, any roots) and starts one of its walks
CallOperation ==
    /\ op = "start"
    /\ \E n \in 1..MaxNodes :
         \E E \in SUBSET Pairs(n) :
           /\ Cardinality(E) <= MaxEdges
           /\ \E dup \in BOOLEAN, rt \in [1..n -> BOOLEAN] :
                \E d \in {new_from_graph(
                            InputGraph(n, E, dup, 0, rt, [i \in 1..n |-> STORE]))} :
                  /\ di' = d
                  /\ orig' = d
                  /\ \E filter \in SUBSET {d.graph.nodes[i].path : i \in 1..n} :
                        /\ pred' = filter
                        /\ trace' \in Walkers(d, filter)
                        /\ trace'.caller # "keep" => filter = {}
    /\ op' = "running"
    /\ UNCHANGED <<mdi, calls>>

\* Dfs::next returning a node; reachable_size adds its size
DfsNext ==
    /\ op = "running"
    /\ trace.kind = "Dfs"
    /\ trace.pending # <<>>
    /\ Len(trace.visited) < MaxSteps
    /\ trace' = [WalkStep(trace) EXCEPT !.sum =
                    IF trace.caller = "reachable_size"
                    THEN @ + di.graph.nodes[WalkNode(trace)].size ELSE @]
    /\ UNCHANGED <<di, orig, op, pred, mdi, calls>>

\* Bfs::next returning a node
BfsNext ==
    /\ op = "running"
    /\ trace.kind = "Bfs"
    /\ trace.pending # <<>>
    /\ Len(trace.visited) < MaxSteps
    /\ trace' = WalkStep(trace)
    /\ UNCHANGED <<di, orig, op, pred, mdi, calls>>

\* next() returned None: the loop of the walk is over
WalkOver ==
    /\ op = "running"
    /\ trace.pending = <<>>

\* the loop ends and the operation returns its result
OperationReturns ==
    /\ WalkOver
    /\ op' = "returned"
    /\ di' = CASE trace.caller = "merge_transient_roots" -> merge_transient_roots(di)
               [] trace.caller = "condense" -> condense(di)
               [] trace.caller = "keep" -> keep(di, pred)
               [] OTHER -> di
    /\ UNCHANGED <<orig, pred, trace, mdi, calls>>

\* the steps of an operation that was called
RunOperation ==
    \/ DfsNext
    \/ BfsNext
    \/ OperationReturns

NextWalk ==
    \/ CallOperation
    \/ RunOperation

\* an operation that was called keeps running: the program is sequential
\* (the last conjunct is WF_vars(OperationReturns), which is enabled exactly
\* when the walk is over)
SpecWalk ==
    /\ InitWalk /\ [][NextWalk]_vars
    /\ WF_vars(DfsNext) /\ WF_vars(BfsNext)
    /\ ([]<>~WalkOver \/ []<><<OperationReturns>>_vars)

----------------------------------------------------------------------------
\* Notions the properties are stated with.

Paths(d) == {d.graph.nodes[i].path : i \in NodeIds(d.graph)}

\* the roots of d from which node v is reachable
DependentRoots(d, v) ==
    {r \in Range(d.roots) : v \in ReachSet(d.graph.edges, {r})}

\* the nodes of the output that carry the FilteredOut name
FilteredOutNodes(d) ==
    {i \in NodeIds(d.graph) : d.graph.nodes[i].path = FILTERED_ROOT_NAME}

\* number of edges of g from a to b
EdgeCount(g, a, b) == Cardinality({k \in 1..Len(g.edges) : g.edges[k] = <<a, b>>})

----------------------------------------------------------------------------
\* keep: sizes

\* C1: keep returns a graph whose reachable size equals the reachable size
\* of its input, for every input graph and every predicate.
C1_KeepReachableSize ==
    op = "keep" => roots_reachable_size(di) = roots_reachable_size(orig)

\* C2: the sizes of all the nodes keep returns (the FilteredOut aggregate
\* included) sum to the sizes of all the nodes of its input.
C2_KeepTotalSize ==
    op = "keep" => total_size(di) = total_size(orig)

----------------------------------------------------------------------------
\* condense

\* the input vertices condense merged into node c of its output
MergedInto(c) == {v \in DOMAIN trace.into : trace.into[v] = c}

\* the input roots that the output roots of node c stand for
OutputDependentRoots(c) ==
    {r \in Range(orig.roots) : trace.into[r] \in DependentRoots(di, c)}

\* C3: condense preserves the reachable size: every reachable input vertex
\* is merged into exactly one output node, no unreachable vertex is merged,
\* and each output node carries the sum of the sizes of the vertices merged
\* into it.
C3_CondenseReachableSize ==
    op = "condense" =>
        /\ roots_reachable_size(di) = roots_reachable_size(orig)
        /\ DOMAIN trace.into = Reachable(orig)
        /\ Len(trace.order) = Cardinality(Reachable(orig))
        /\ \A v \in DOMAIN trace.into : trace.into[v] \in NodeIds(di.graph)
        /\ \A c \in NodeIds(di.graph) :
               di.graph.nodes[c].size = SumOver(MergedInto(c), SizeOf(orig.graph))

\* C3 witness: two reachable vertices of positive size were merged into one
\* node while some vertex of positive size is unreachable.
C3_Witness ==
    /\ op = "condense"
    /\ \E c \in NodeIds(di.graph) :
          Cardinality({v \in MergedInto(c) : orig.graph.nodes[v].size > 0}) >= 2
    /\ \E u \in NodeIds(orig.graph) \ Reachable(orig) : orig.graph.nodes[u].size > 0

\* C5: every vertex merged into an output node c has in the input the
\* dependent roots that c has in the output (an output root standing for
\* the input roots merged into it), distinct output nodes have distinct
\* root-dependency sets, and there are as many output nodes as distinct
\* root-dependency sets among the reachable input vertices.
C5_CondenseClasses ==
    op = "condense" =>
        /\ \A v \in DOMAIN trace.into :
               DependentRoots(orig, v) = OutputDependentRoots(trace.into[v])
        /\ \A c1, c2 \in NodeIds(di.graph) :
               c1 # c2 => /\ OutputDependentRoots(c1) # OutputDependentRoots(c2)
                          /\ DependentRoots(di, c1) # DependentRoots(di, c2)
        /\ Len(di.graph.nodes) =
               Cardinality({DependentRoots(orig, v) : v \in Reachable(orig)})

\* C5 witness: a vertex that two roots reach shares its output node with
\* another vertex, and the output has another node.
C5_Witness ==
    /\ op = "condense"
    /\ Len(di.graph.nodes) >= 2
    /\ \E v \in DOMAIN trace.into :
          /\ Cardinality(DependentRoots(orig, v)) >= 2
          /\ Cardinality(MergedInto(trace.into[v])) >= 2

\* C6: the output has an edge c1 -> c2 iff c1 # c2 and the input has an edge
\* from a vertex merged into c1 to a vertex merged into c2; at most one edge
\* per ordered pair and no self-edge.
C6_CondenseEdges ==
    op = "condense" =>
        \A c1, c2 \in NodeIds(di.graph) :
            /\ find_edge(di.graph, c1, c2) <=>
                   /\ c1 # c2
                   /\ \E e \in Range(orig.graph.edges) :
                         /\ e[1] \in MergedInto(c1)
                         /\ e[2] \in MergedInto(c2)
            /\ EdgeCount(di.graph, c1, c2) <= 1
            /\ EdgeCount(di.graph, c1, c1) = 0

\* C6 witness: two input edges join the same two output nodes, an input
\* edge lies inside one output node, and the output has an edge.
C6_Witness ==
    /\ op = "condense"
    /\ \E e1, e2 \in Range(orig.graph.edges) :
          /\ e1 # e2
          /\ {e1[1], e1[2], e2[1], e2[2]} \subseteq DOMAIN trace.into
          /\ trace.into[e1[1]] = trace.into[e2[1]]
          /\ trace.into[e1[2]] = trace.into[e2[2]]
          /\ trace.into[e1[1]] # trace.into[e1[2]]
    /\ \E e \in Range(orig.graph.edges) :
          /\ {e[1], e[2]} \subseteq DOMAIN trace.into
          /\ trace.into[e[1]] = trace.into[e[2]]

----------------------------------------------------------------------------
\* merge_transient_roots

\* the roots of the input that are Memory or Temporary nodes
TransientRoots(d) ==
    {i \in Range(d.roots) : is_transient_root(d.graph.nodes[i])}

\* C4: merge_transient_roots preserves the reachable size, whatever number
\* of the roots are Memory or Temporary nodes.
C4_MergeReachableSize ==
    op = "merge_transient_roots" => roots_reachable_size(di) = roots_reachable_size(orig)

\* C4 witness: a merge of two transient roots beside a root that is not
\* transient, with a positive reachable size.
C4_Witness ==
    /\ op = "merge_transient_roots"
    /\ Cardinality(TransientRoots(orig)) >= 2
    /\ Range(orig.roots) \ TransientRoots(orig) # {}
    /\ roots_reachable_size(orig) > 0

\* C4 witness of the other case: a merge with no transient root at all.
C4_WitnessNone ==
    /\ op = "merge_transient_roots"
    /\ TransientRoots(orig) = {}
    /\ roots_reachable_size(orig) > 0

\* C9: merge_transient_roots adds one node, the zero-size Transient root;
\* the old nodes keep path and size, the old edges stay in place, the new
\* edges go from the Transient node to the transient roots of the input;
\* afterwards no Memory or Temporary node is a root, the other roots are
\* still roots, and nothing else changed its root status.
C9_MergeFrame ==
    op = "merge_transient_roots" =>
        LET n == Len(orig.graph.nodes)
            m == Len(orig.graph.edges)
            old == orig.graph
            new == di.graph
        IN /\ Len(new.nodes) = n + 1
           /\ new.nodes[n + 1] = Derivation(TRANSIENT_ROOT_NAME, 0, TRUE)
           /\ \A i \in 1..n :
                 /\ new.nodes[i].path = old.nodes[i].path
                 /\ new.nodes[i].size = old.nodes[i].size
                 /\ new.nodes[i].is_root =
                        (old.nodes[i].is_root /\ ~is_transient_root(old.nodes[i]))
           /\ Len(new.edges) >= m
           /\ SubSeq(new.edges, 1, m) = old.edges
           /\ \A k \in (m + 1)..Len(new.edges) :
                 /\ new.edges[k][1] = n + 1
                 /\ new.edges[k][2] \in TransientRoots(orig)
           /\ \A t \in TransientRoots(orig) : EdgeCount(new, n + 1, t) = 1
           /\ Range(di.roots) = (Range(orig.roots) \ TransientRoots(orig)) \cup {n + 1}
           /\ roots_attr_coherent(di)

\* C9 witness: the input has a transient root, a root that is not
\* transient, and a Memory or Temporary node that is not a root and has an
\* edge.
C9_Witness ==
    /\ op = "merge_transient_roots"
    /\ TransientRoots(orig) # {}
    /\ Range(orig.roots) \ TransientRoots(orig) # {}
    /\ \E i \in NodeIds(orig.graph) \ Range(orig.roots) :
          /\ is_transient_root(orig.graph.nodes[i])
          /\ \E e \in Range(orig.graph.edges) : i \in {e[1], e[2]}

----------------------------------------------------------------------------
\* keep: roots

\* the root names of the output, the FilteredOut aggregate set aside
KeptRootNames == roots_name(di) \ {FILTERED_ROOT_NAME}

\* the filter of the call returns true on every node of the input
ConstantTrue == Paths(orig) \subseteq pred

\* the filter of the call returns false on every node of the input
ConstantFalse == pred = {}

\* C7: the root names of the output of keep, FilteredOut set aside, are
\* root names of the input; they are all of them whenever the output holds
\* no FilteredOut node, and in particular when the predicate is constant
\* true.
C7_KeepRootNames ==
    op = "keep" =>
        /\ KeptRootNames \subseteq roots_name(orig)
        /\ FilteredOutNodes(di) = {} => KeptRootNames = roots_name(orig)
        /\ ConstantTrue => roots_name(di) = roots_name(orig)

\* C7 as amended: the root names of the output, FilteredOut set aside, are
\* root names of the input; they are all of them whenever the output holds
\* no FilteredOut node and no root of the input has size zero, and, whatever
\* the sizes, when the predicate is constant true.
C7_KeepRootNamesPositive ==
    op = "keep" =>
        /\ KeptRootNames \subseteq roots_name(orig)
        /\ (/\ FilteredOutNodes(di) = {}
            /\ \A r \in Range(orig.roots) : orig.graph.nodes[r].size > 0)
               => KeptRootNames = roots_name(orig)
        /\ ConstantTrue => roots_name(di) = roots_name(orig)

\* C7 witness: a root of positive size that fails the predicate is put in
\* the output for a kept descendant, beside another root that passes, and
\* no FilteredOut node is made.
C7_Witness ==
    /\ op = "keep"
    /\ FilteredOutNodes(di) = {}
    /\ Cardinality(Range(orig.roots)) >= 2
    /\ \A r \in Range(orig.roots) : orig.graph.nodes[r].size > 0
    /\ \E r \in Range(orig.roots) : orig.graph.nodes[r].path \notin pred
    /\ \E r \in Range(orig.roots) : orig.graph.nodes[r].path \in pred

\* C8: with the constant-false predicate and an input that has a node of
\* positive size, the root names of the output are the FilteredOut
\* aggregate alone; the output never holds two FilteredOut nodes, and holds
\* one exactly when the size left in the roots never put in the output is
\* not zero.
C8_KeepConstantFalse ==
    op = "keep" =>
        /\ (ConstantFalse /\ \E i \in NodeIds(orig.graph) : orig.graph.nodes[i].size > 0)
               => roots_name(di) = {FILTERED_ROOT_NAME}
        /\ Cardinality(FilteredOutNodes(di)) <= 1
        /\ FilteredOutNodes(di) # {} <=> trace.remaining_size > 0

----------------------------------------------------------------------------
\* record_metadata

\* a record_metadata call on mdi
RecordMetadataCall == calls' = calls + 1

\* C10: record_metadata is idempotent: a call after the first leaves the
\* whole size table as it was, and no call changes a populated cell, a cell
\* of the row of the other dedup-awareness, the graph, the root or the
\* modes.
C10_RecordMetadataIdempotent ==
    [][RecordMetadataCall =>
        /\ calls >= 1 => mdi'.metadata.size = mdi.metadata.size
        /\ \A a \in DedupAwareness, r \in Reachability :
              \/ mdi'.metadata.size[a][r] = mdi.metadata.size[a][r]
              \/ /\ mdi.metadata.size[a][r] = None
                 /\ a = mdi.metadata.dedup
        /\ mdi'.graph = mdi.graph
        /\ mdi'.root = mdi.root
        /\ mdi'.metadata.reachable = mdi.metadata.reachable
        /\ mdi'.metadata.dedup = mdi.metadata.dedup]_vars

\* C10 witness: two calls were made on a Disconnected graph whose current
\* row had the Connected cell unset and the Disconnected cell populated,
\* and whose other row had an unset and a populated cell; the first call
\* filled the Connected cell.
C10_Witness ==
    /\ calls = 2
    /\ orig.metadata.reachable = "Disconnected"
    /\ orig.metadata.size[orig.metadata.dedup]["Connected"] = None
    /\ orig.metadata.size[orig.metadata.dedup]["Disconnected"] # None
    /\ \E a \in DedupAwareness \ {orig.metadata.dedup} :
          /\ orig.metadata.size[a]["Connected"] # None
          /\ orig.metadata.size[a]["Disconnected"] = None
    /\ mdi.metadata.size[mdi.metadata.dedup]["Connected"] # None
    /\ mdi.metadata.size[mdi.metadata.dedup]["Connected"] # Some(StaleSize)

----------------------------------------------------------------------------
\* read_from_store and the ingestion

\* the sizes of the nodes of a DepInfos with a designated root
SizesOf(d) == [i \in NodeIds(d.graph) |-> d.graph.nodes[i].size]

\* the size of what the designated root reaches, recomputed from the edges
RecomputedReachable(d) ==
    SumOver(ReachSet(d.graph.edges, {d.root}), SizesOf(d))

\* the size of all the nodes, recomputed
RecomputedTotal(d) == SumOver(NodeIds(d.graph), SizesOf(d))

\* C11: in the DepInfos a successful read_from_store returned, and after any
\* later record_metadata call on it, the Connected cell of the current row
\* holds the recomputed reachable size, the Disconnected cell is filled
\* exactly in Disconnected mode and then holds the recomputed sum of all
\* sizes, the cell of the graph's own reachability mode holds the sum of all
\* sizes, and no cell of the other row is populated.
C11_BuiltMetadata ==
    op = "Ok" =>
        LET row == mdi.metadata.size[mdi.metadata.dedup]
            mode == mdi.metadata.reachable
        IN /\ row["Connected"] = Some(RecomputedReachable(mdi))
           /\ row["Disconnected"] # None <=> mode = "Disconnected"
           /\ row["Disconnected"] # None =>
                  row["Disconnected"] = Some(RecomputedTotal(mdi))
           /\ row[mode] = Some(RecomputedTotal(mdi))
           /\ \A a \in DedupAwareness \ {mdi.metadata.dedup}, r \in Reachability :
                  mdi.metadata.size[a][r] = None

\* C11 witness: a build without explicit root of a graph with a reachable
\* and an unreachable node of positive size, record_metadata called again
\* afterwards.
C11_Witness ==
    /\ op = "Ok"
    /\ calls >= 1
    /\ mdi.metadata.reachable = "Disconnected"
    /\ RecomputedReachable(mdi) > 0
    /\ RecomputedReachable(mdi) < RecomputedTotal(mdi)

\* C11 witness of the other mode: a build with an explicit root and a second
\* node.
C11_WitnessConnected ==
    /\ op = "Ok"
    /\ mdi.metadata.reachable = "Connected"
    /\ Len(mdi.graph.nodes) >= 2

\* a register_node call
RegisterNodeCall ==
    /\ op = "populateGraph"
    /\ \/ Len(trace'.g.nodes) = Len(trace.g.nodes) + 1
       \/ op' = "panic"

\* the kind the classification rules give a fact, "error" for the fatal
\* unknown-store-object-type error
RuleKind(p) ==
    IF starts_with(p.path, <<"/">>)
    THEN IF starts_with(p.path, <<"/", "proc/">>) THEN "Memory"
         ELSE IF p.is_root # 0 THEN "Link" ELSE "Path"
    ELSE IF \/ starts_with(p.path, <<"{memory:">>)
            \/ p.path \in {<<"{lsof}">>, <<"{censored}">>}
    THEN "Memory"
    ELSE IF starts_with(p.path, <<"{temp:">>) THEN "Temporary"
    ELSE "error"

\* C12: register_node classifies a fact by the first rule that matches (a
\* path under / is Memory under /proc/, else Link for a declared root, else
\* Path; the in-memory marker and the legacy literals are Memory; the
\* temporary marker is Temporary) and adds that node with the path and the
\* size of the fact; every other path, the empty one included, ends in the
\* unknown-store-object-type error and leaves the graph as it was.
C12_Classification ==
    [][RegisterNodeCall =>
        LET p == trace'.fact[1]
            kind == RuleKind(p)
        IN IF kind = "error"
           THEN /\ op' = "panic"
                /\ trace'.panic = Some(PanicUnknown)
                /\ trace'.g = trace.g
           ELSE /\ op' = "populateGraph"
                /\ trace'.g.nodes =
                       Append(trace.g.nodes,
                              DepNode(NodeDescription(kind, p.path), p.size))
                /\ trace'.g.edges = trace.g.edges]_vars

C14_NoMultiEdge ==
    op = "populateGraph" =>
        \A a, b \in NodeIds(trace.g) : EdgeCount(trace.g, a, b) <= 1

----------------------------------------------------------------------------
\* self-edges

NoSelfEdge(g) == \A k \in 1..Len(g.edges) : g.edges[k][1] # g.edges[k][2]

\* C15: no graph of the program has an edge from a node to itself: not the
\* graph the store is reporting into, whatever pairs register_edge is called
\* with, not the DepInfos read_from_store returns, and not the output of
\* merge_transient_roots, condense or keep, also on inputs with directed
\* cycles.
C15_NoSelfEdge ==
    /\ op \in {"populateGraph", "panic", "Ok", "Err", "exit"} => NoSelfEdge(trace.g)
    /\ mdi # NoMdi => NoSelfEdge(mdi.graph)
    /\ NoSelfEdge(di.graph)
    /\ NoSelfEdge(orig.graph)

\* C15 witness: a build finished after register_edge was called with a node
\* and itself, and nothing was added for that call.
C15_Witness ==
    /\ op = "Ok"
    /\ trace.edge_calls = MaxDeps
    /\ Len(trace.g.edges) < trace.edge_calls
    /\ Len(mdi.graph.edges) > Len(trace.g.edges)

\* C15 witness for the reductions: condense or keep returned edges for an
\* input with a directed cycle.
C15_WitnessCycle ==
    /\ op \in {"condense", "keep"}
    /\ \E a, b \in NodeIds(orig.graph) :
          /\ a # b
          /\ find_edge(orig.graph, a, b)
          /\ a \in ReachSet(orig.graph.edges, {b})
    /\ di.graph.edges # <<>>

----------------------------------------------------------------------------
\* keep: nodes, sizes and edges of the output

\* the nodes of d that satisfy the filter of the call
Satisfying(d) == {i \in NodeIds(d.graph) : d.graph.nodes[i].path \in pred}

\* the boundary nodes of the input of keep: the roots and the nodes that
\* satisfy the filter
Boundary == Range(orig.roots) \cup Satisfying(orig)

\* the nodes of the input that the claim puts in the output: the satisfying
\* nodes and the roots with a satisfying transitive descendant
ExpectedKept ==
    Satisfying(orig) \cup
    {r \in Range(orig.roots) :
        ReachSet(orig.graph.edges, {r}) \cap Satisfying(orig) # {}}

\* C16: the nodes of the output of keep, FilteredOut set aside, are the
\* nodes of the input that satisfy the predicate and the roots that fail it
\* but have a transitive descendant satisfying it, one output node each,
\* with its path and its root flag; no other root is a node of the output.
C16_KeepNodes ==
    op = "keep" =>
        /\ DOMAIN trace.new_ids = ExpectedKept
        /\ NodeIds(di.graph) \ FilteredOutNodes(di) =
               {trace.new_ids[i] : i \in DOMAIN trace.new_ids}
        /\ \A i, j \in DOMAIN trace.new_ids :
               trace.new_ids[i] = trace.new_ids[j] => i = j
        /\ \A i \in DOMAIN trace.new_ids :
               /\ di.graph.nodes[trace.new_ids[i]].path = orig.graph.nodes[i].path
               /\ di.graph.nodes[trace.new_ids[i]].is_root = orig.graph.nodes[i].is_root

\* the nodes that a walk from the boundary node x reaches along paths whose
\* intermediate vertices are all non-boundary
BoundaryReach(x) ==
    ReachSet(SelectSeq(orig.graph.edges,
                       LAMBDA e : e[1] = x \/ e[1] \notin Boundary), {x}) \ {x}

\* the non-boundary vertices whose size keep added to the boundary node x
AbsorbedInto(x) ==
    {v \in NodeIds(orig.graph) \ Boundary :
        \E t \in trace.absorbed : t[1] = x /\ t[2] = v /\ t[3] > 0}

\* the size the boundary node x gathered: its own and what it absorbed
Gathered(x) ==
    orig.graph.nodes[x].size + SumOver(AbsorbedInto(x), SizeOf(orig.graph))

\* C17: keep adds the size of a non-boundary vertex to at most one boundary
\* node, in one piece, and that node reaches the vertex in the input along
\* non-boundary vertices; a boundary node of the output shows its own size
\* plus the sizes of the vertices absorbed into it, and the FilteredOut
\* aggregate is what the roots that were never put in the output gathered.
C17_KeepAbsorption ==
    op = "keep" =>
        /\ \A v \in NodeIds(orig.graph) \ Boundary :
              /\ Cardinality({x \in Boundary : v \in AbsorbedInto(x)}) <= 1
              /\ \A t \in trace.absorbed :
                    t[2] = v => /\ t[1] \in Boundary
                                /\ v \in BoundaryReach(t[1])
                                /\ t[3] \in {0, orig.graph.nodes[v].size}
        /\ \A x \in DOMAIN trace.new_ids :
              di.graph.nodes[trace.new_ids[x]].size = Gathered(x)
        /\ trace.remaining_size =
              SumOver(Boundary \ DOMAIN trace.new_ids,
                      [x \in Boundary \ DOMAIN trace.new_ids |-> Gathered(x)])

\* C17 witness: a non-boundary vertex of positive size that two boundary
\* nodes reach along non-boundary vertices was absorbed, and a root that
\* was never put in the output had absorbed a vertex of positive size.
C17_Witness ==
    /\ op = "keep"
    /\ \E v \in NodeIds(orig.graph) \ Boundary :
          /\ orig.graph.nodes[v].size > 0
          /\ Cardinality({x \in Boundary : v \in BoundaryReach(x)}) >= 2
          /\ \E x \in Boundary : v \in AbsorbedInto(x)
    /\ trace.remaining_size > 0

\* C18: for two distinct nodes X and Y of the output of keep, the output has
\* an edge X -> Y iff the input has a path from X to Y whose intermediate
\* vertices are all non-boundary, and it has at most one such edge.
C18_KeepEdges ==
    op = "keep" =>
        \A x, y \in DOMAIN trace.new_ids :
            x # y =>
                /\ find_edge(di.graph, trace.new_ids[x], trace.new_ids[y])
                       <=> y \in BoundaryReach(x)
                /\ EdgeCount(di.graph, trace.new_ids[x], trace.new_ids[y]) <= 1

----------------------------------------------------------------------------
\* condense: roots

\* the first vertex of the walk from the fake root that went into node c
FirstVisited(c) ==
    trace.order[CHOOSE k \in 1..Len(trace.order) :
                    /\ trace.into[trace.order[k]] = c
                    /\ \A j \in 1..(k - 1) : trace.into[trace.order[j]] # c]

\* every root of the input stands for its own class in the output: it is
\* the first vertex visited of its class and the output node of the class
\* carries its path and is a root
RootsRepresentClasses ==
    \A r \in Range(orig.roots) :
        /\ FirstVisited(trace.into[r]) = r
        /\ di.graph.nodes[trace.into[r]].path = orig.graph.nodes[r].path
        /\ trace.into[r] \in Range(di.roots)

\* no two different roots of d reach each other
NoMutualRoots(d) ==
    \A r1, r2 \in Range(d.roots) :
        (r1 # r2 /\ r2 \in ReachSet(d.graph.edges, {r1}))
            => r1 \notin ReachSet(d.graph.edges, {r2})

\* C19: for every input graph the root names of the output of condense are
\* the root names of the input, each root being the first vertex visited,
\* hence the representative, of its own class.
C19_CondenseRoots ==
    op = "condense" =>
        /\ roots_name(di) = roots_name(orig)
        /\ RootsRepresentClasses

\* C19 as amended: the root names of the output are root names of the input
\* and every root of the input went into a root of the output; when no two
\* roots of the input reach each other (on every acyclic graph) the root
\* names are the same and each root is the first vertex visited, hence the
\* representative, of its own class.
C19_CondenseRootsApart ==
    op = "condense" =>
        /\ roots_name(di) \subseteq roots_name(orig)
        /\ \A r \in Range(orig.roots) : trace.into[r] \in Range(di.roots)
        /\ NoMutualRoots(orig) =>
              /\ roots_name(di) = roots_name(orig)
              /\ RootsRepresentClasses

\* C19 witness: a condense of a graph with two roots that do not reach each
\* other both ways, one of them a dependency of the other, and a vertex
\* that is no root in the class of a root.
C19_Witness ==
    /\ op = "condense"
    /\ NoMutualRoots(orig)
    /\ \E r1, r2 \in Range(orig.roots) :
          r1 # r2 /\ find_edge(orig.graph, r1, r2)
    /\ \E r \in Range(orig.roots), v \in DOMAIN trace.into :
          v \notin Range(orig.roots) /\ trace.into[v] = trace.into[r]

----------------------------------------------------------------------------
\* termination

\* no node occurs twice in the sequence
NoRepeat(seq) == \A j, k \in 1..Len(seq) : seq[j] = seq[k] => j = k

\* a walk returns no vertex twice and holds no vertex twice; once over, it
\* returned the vertices that the operation's walk visits, in that order,
\* and reachable_size has summed their sizes
WalkVisitsOnce ==
    op \in {"running", "returned"} =>
        /\ NoRepeat(trace.visited \o trace.pending)
        /\ Range(trace.visited) \subseteq 1..(Len(orig.graph.nodes) + 1)
        /\ (trace.pending = <<>> /\ trace.kind = "Bfs") =>
               trace.visited = Bfs(trace.edges, trace.start)
        /\ (trace.pending = <<>> /\ trace.kind = "Dfs") =>
               trace.visited = Dfs(trace.edges, trace.start, trace.follow)
        /\ (trace.pending = <<>> /\ trace.caller = "reachable_size") =>
               trace.sum = reachable_size([graph |-> orig.graph,
                                           root |-> trace.start])

\* C20: on every input graph, cycles and vertices reachable from several
\* roots included, each walk of reachable_size, condense and keep returns
\* every vertex at most once, and reachable_size, merge_transient_roots,
\* condense and keep return.
C20_Termination ==
    /\ []WalkVisitsOnce
    /\ (op = "running") ~> (op = "returned")

\* C20 witness: an operation returned after a walk over a directed cycle
\* that met a vertex with two edges into it.
C20_Witness ==
    /\ op = "returned"
    /\ \E a, b \in Range(trace.visited) :
          /\ a # b
          /\ <<a, b>> \in Range(trace.edges)
          /\ a \in ReachSet(trace.edges, {b})
    /\ \E v \in Range(trace.visited) :
          Cardinality({k \in 1..Len(trace.edges) :
                          trace.edges[k][2] = v /\ trace.edges[k][1] \in trace.follow}) >= 2

----------------------------------------------------------------------------
\* the nodes of d that no root of d reaches
Unreached(d) == NodeIds(d.graph) \ Reachable(d)

\* the reachable size of the graph that read_from_store returned
BuiltReachableSize == RecomputedReachable(mdi)

\* C21: in a run of main (build, merge_transient_roots, condense, then keep
\* with the threshold when one is set), every node of the graph after
\* condense is reachable from a root, and the sizes of all the nodes of the
\* final graph sum to the reachable size of the graph the build returned.
C21_Pipeline ==
    /\ op = "condense" => Unreached(di) = {}
    /\ op \in {"keep", "render"} => total_size(di) = BuiltReachableSize

\* C21 witness: keep ran with a threshold that a node of the condensed graph
\* fails, on a build that returned a node no root reaches.
C21_Witness ==
    /\ op = "keep"
    /\ \E i \in NodeIds(orig.graph) : orig.graph.nodes[i].path \notin pred
    /\ RecomputedTotal(mdi) > BuiltReachableSize
    /\ BuiltReachableSize > 0

====
